---- MODULE Spec2Model ----
(***************************************************************************)
(* Model of the Mandelbrot compute plugin (src/src/main.rs): the render    *)
(* graph node MandelbrotNode (Loading -> Update), the per-frame systems    *)
(* prepare_bind_group and update_uniforms, and the asynchronous map of     *)
(* the staging buffer (mapped_uniform_buffer) whose completion callback    *)
(* writes the captured Uniforms value and clears the MAPPED gate.          *)
(*                                                                         *)
(* One frame of the Render schedule runs, in this order:                   *)
(*   prepare_bind_group  (RenderSystems::PrepareBindGroups)                *)
(*   process_queue       (the pipeline cache advances; environment)        *)
(*   MandelbrotNode::update, MandelbrotNode::run  (the render graph)       *)
(*   update_uniforms     (after RenderSystems::Render)                     *)
(* The device delivers a map callback either inside the poll(Wait) of      *)
(* update_uniforms or later, between two systems (map_callback).           *)
(* A panic ends the process: no action is enabled once panic # "none".     *)
(***************************************************************************)
EXTENDS Naturals, Sequences, FiniteSets

\* ------------------------------------------------------------ bounds
\* Number of frames explored.
MaxFrames == 4

\* ------------------------------------------------- program constants
DISPLAY_FACTOR == 1
WORKGROUP_SIZE == 8
\* size_of::<Uniforms>(): one u32 field.
SizeOfUniforms == 4
SIZE == <<1280 \div DISPLAY_FACTOR, 720 \div DISPLAY_FACTOR>>

\* CachedPipelineState as MandelbrotNode::update distinguishes it.
CachedPipelineStates == {"Queued", "Creating", "ShaderNotLoaded", "ErrOther", "Ok"}
\* Results the device can hand to the map_async callback.
MapResults == {"Ok", "Err"}
\* What poll(Wait) can do with the map requested just before it: deliver the
\* callback with Ok, deliver it with Err, return with the map still pending
\* (the callback is delivered later), or fail itself.
PollOutcomes == {"MapOk", "MapErr", "Pending", "PollErr"}

VARIABLES
  phase,                 \* next system of the frame
  frame,                 \* frames started (runs of prepare_bind_group)
  time,                  \* Uniforms.time, the CPU-side counter
  bind_group,            \* MandelbrotImageBindGroups: frame that built it (0: none)
  state,                 \* MandelbrotNode.state
  cache,                 \* state of checker_board_pipeline in the PipelineCache
  MAPPED,                \* the static AtomicBool of update_uniforms
  map_requests,          \* outstanding map_async requests (their closures)
  mapped_uniform_buffer, \* content of the staging buffer
  uniform_buffer,        \* content of the GPU-only uniform buffer
  cmds,                  \* commands recorded by run in this frame
  panic,                 \* "none", or which panic ended the process
  observedOk,            \* history: update has seen CachedPipelineState::Ok
  lastSync,              \* history: what the last update_uniforms call did
  waited,                \* history: the last update_uniforms call reached poll(Wait)
  fired,                 \* history: the last Ok callback, <<>> when none yet
  committed,             \* history: Uniforms snapshots of the completed maps
  reads,                 \* history: values the dispatches read, in order
  mapDone,               \* history: a map completed since the last copy
  copyFresh,             \* history: mapDone as the last run found it
  polls,                 \* history: calls of get_compute_pipeline_state by update
  mapErrors,             \* history: Err results delivered to the map callback
  index,                 \* double-buffer variant: the node's parity
  selected               \* double-buffer variant: bind groups dispatched with, in order

vars == <<phase, frame, time, bind_group, state, cache, MAPPED, map_requests,
          mapped_uniform_buffer, uniform_buffer, cmds, panic, observedOk,
          lastSync, waited, fired, committed, reads, mapDone, copyFresh,
          polls, mapErrors, index, selected>>

history == <<observedOk, lastSync, waited, fired, committed, reads, mapDone, copyFresh,
             polls, mapErrors>>

\* The state of the double-buffer variant's node, which this variant lacks.
double_buffer == <<index, selected>>

\* ------------------------------------------------------ init
\* init_mandelbrot_pipeline: Uniforms { time: 0 } in both buffers, the
\* pipeline queued; MandelbrotNode::default(): Loading; MAPPED false.
Init ==
  /\ phase = "prepare"
  /\ frame = 0
  /\ time = 0
  /\ bind_group = 0
  /\ state = "Loading"
  /\ cache = "Queued"
  /\ MAPPED = FALSE
  /\ map_requests = <<>>
  /\ mapped_uniform_buffer = 0
  /\ uniform_buffer = 0
  /\ cmds = <<>>
  /\ panic = "none"
  /\ observedOk = FALSE
  /\ lastSync = "none"
  /\ waited = FALSE
  /\ fired = <<>>
  /\ committed = {}
  /\ reads = <<>>
  /\ mapDone = FALSE
  /\ copyFresh = FALSE
  /\ polls = 0
  /\ mapErrors = 0
  /\ index = 0
  /\ selected = <<>>

\* ------------------------------------------------------ prepare_bind_group
\* A counter narrower than the frames it counts.
IncrementTimeWrapping(t) == (t + 1) % 3

\* A counter that is advanced twice per run.
IncrementTimeTwice(t) == t + 2

\* uniform_data.time += 1
IncrementTime(t) == t + 1

\* A prepare_bind_group that writes the counter into the uniform buffer itself.
PrepareUniformBufferWrite(ub, t) == t

\* prepare_bind_group binds uniform_buffer into the bind group; it does not
\* write the buffer's content.
PrepareUniformBuffer(ub, t) == ub

prepare_bind_group ==
  /\ panic = "none"
  /\ phase = "prepare"
  /\ frame < MaxFrames
  /\ frame' = frame + 1
  /\ time' = IncrementTime(time)
  /\ bind_group' = frame + 1
  /\ uniform_buffer' = PrepareUniformBuffer(uniform_buffer, time')
  /\ phase' = "queue"
  /\ UNCHANGED <<state, cache, MAPPED, map_requests, mapped_uniform_buffer,
                 cmds, panic, history, double_buffer>>

\* ------------------------------------------------------ pipeline cache
\* The pipeline cache processes its queue before the render graph runs; the
\* node only observes the result. `allowed` is what the cache may report and
\* `sticky` says whether a compiled pipeline stays compiled.
process_queue(allowed, sticky) ==
  /\ panic = "none"
  /\ phase = "queue"
  /\ cache' \in (IF sticky /\ cache = "Ok" THEN {"Ok"} ELSE allowed)
  /\ phase' = "update"
  /\ UNCHANGED <<frame, time, bind_group, state, MAPPED, map_requests,
                 mapped_uniform_buffer, uniform_buffer, cmds, panic, history,
                 double_buffer>>

\* ------------------------------------------------------ MandelbrotNode::update
\* An update that polls in both states and follows the cache back.
NextStateReverting(st, c) == IF c = "Ok" THEN "Update" ELSE "Loading"

\* match self.state { Loading => match state { Ok(_) => Update, .. }, Update => {} }
NextState(st, c) == IF st = "Loading" /\ c = "Ok" THEN "Update" ELSE st

\* An update without the ShaderNotLoaded arm: every Err panics.
UpdatePanicsOnAnyErr(st, c) == st = "Loading" /\ c \in {"ErrOther", "ShaderNotLoaded"}

\* An update whose catch-all arm swallows every Err.
UpdatePanicsNever(st, c) == FALSE

\* CachedPipelineState::Err(err) other than ShaderNotLoaded, seen while Loading.
UpdatePanics(st, c) == st = "Loading" /\ c = "ErrOther"

MandelbrotNode_update ==
  /\ panic = "none"
  /\ phase = "update"
  /\ polls' = IF state = "Loading" THEN polls + 1 ELSE polls
  /\ IF UpdatePanics(state, cache)
       THEN /\ panic' = "pipeline"
            /\ UNCHANGED <<state, observedOk, phase>>
       ELSE /\ state' = NextState(state, cache)
            /\ observedOk' = (observedOk \/ (state = "Loading" /\ cache = "Ok"))
            /\ phase' = "run"
            /\ panic' = panic
  /\ UNCHANGED <<frame, time, bind_group, cache, MAPPED, map_requests,
                 mapped_uniform_buffer, uniform_buffer, cmds, lastSync, waited,
                 fired, committed, reads, mapDone, copyFresh, mapErrors,
                 double_buffer>>

\* ------------------------------------------------------ MandelbrotNode::run
CopyCmd ==
  [op |-> "copy_buffer_to_buffer",
   args |-> <<"mapped_uniform_buffer", 0, "uniform_buffer", 0, SizeOfUniforms>>]
BeginPassCmd == [op |-> "begin_compute_pass", args |-> <<>>]
SetBindGroupCmd(bg) == [op |-> "set_bind_group", args |-> <<0, bg>>]
SetPipelineCmd == [op |-> "set_pipeline", args |-> <<"checker_board">>]
\* Workgroup counts rounded up, so that the texture's edge is covered.
WorkgroupCountsCeil(size, wg) ==
  <<(size[1] + wg - 1) \div wg, (size[2] + wg - 1) \div wg, 1>>

\* (SIZE.0 / WORKGROUP_SIZE, SIZE.1 / WORKGROUP_SIZE, 1): u32 division.
WorkgroupCounts(size, wg) == <<size[1] \div wg, size[2] \div wg, 1>>

DispatchCmd ==
  [op |-> "dispatch_workgroups", args |-> WorkgroupCounts(SIZE, WORKGROUP_SIZE)]

\* pipeline_cache.get_compute_pipeline(id): Some exactly when the state is Ok.
get_compute_pipeline(c) == c = "Ok"

\* A run that records the dispatch whatever self.state is.
RunCommandsNoMatch(st, c, bg) ==
  <<CopyCmd, BeginPassCmd, SetBindGroupCmd(bg), SetPipelineCmd, DispatchCmd>>

\* A run that records the copy after the compute pass.
RunCommandsCopyLast(st, c, bg) ==
  <<BeginPassCmd>>
    \o (IF st = "Update" /\ get_compute_pipeline(c)
          THEN <<SetBindGroupCmd(bg), SetPipelineCmd, DispatchCmd>>
          ELSE <<>>)
    \o <<CopyCmd>>

\* A run that returns at once while the node is Loading.
RunCommandsLoadingEmpty(st, c, bg) ==
  IF st = "Loading" THEN <<>>
  ELSE <<CopyCmd, BeginPassCmd>>
         \o (IF get_compute_pipeline(c)
               THEN <<SetBindGroupCmd(bg), SetPipelineCmd, DispatchCmd>>
               ELSE <<>>)

\* The commands run records, in order, up to its return or its panic.
RunCommands(st, c, bg) ==
  <<CopyCmd, BeginPassCmd>>
    \o (IF st = "Update" /\ get_compute_pipeline(c)
          THEN <<SetBindGroupCmd(bg), SetPipelineCmd, DispatchCmd>>
          ELSE <<>>)

\* .unwrap() of get_compute_pipeline in the Update arm.
RunPanics(st, c) == st = "Update" /\ ~get_compute_pipeline(c)

HasDispatch(cs) == \E i \in 1..Len(cs) : cs[i].op = "dispatch_workgroups"

\* The device executes the recorded commands in order: the copy moves the
\* staging content into the uniform buffer, the dispatch reads the uniform
\* buffer. The result is <<uniform buffer, values read>>.
RECURSIVE Execute(_, _, _, _)
Execute(cs, stg, ub, rd) ==
  IF cs = <<>> THEN <<ub, rd>>
  ELSE LET c == Head(cs) IN
       IF c.op = "copy_buffer_to_buffer" THEN Execute(Tail(cs), stg, stg, rd)
       ELSE IF c.op = "dispatch_workgroups" THEN Execute(Tail(cs), stg, ub, Append(rd, ub))
       ELSE Execute(Tail(cs), stg, ub, rd)

MandelbrotNode_run ==
  /\ panic = "none"
  /\ phase = "run"
  /\ cmds' = RunCommands(state, cache, bind_group)
  /\ IF RunPanics(state, cache)
       THEN /\ panic' = "unwrap"
            /\ UNCHANGED <<uniform_buffer, reads, mapDone, copyFresh, phase>>
       ELSE LET done == Execute(cmds', mapped_uniform_buffer, uniform_buffer, reads) IN
            /\ panic' = panic
            /\ uniform_buffer' = done[1]
            /\ reads' = done[2]
            /\ copyFresh' = mapDone
            /\ mapDone' = FALSE
            /\ phase' = "uniforms"
  /\ UNCHANGED <<frame, time, bind_group, state, cache, MAPPED, map_requests,
                 mapped_uniform_buffer, observedOk, lastSync, waited, fired,
                 committed, polls, mapErrors, double_buffer>>

\* ------------------------------------------------------ update_uniforms
\* let uniform_data = *uniform_data; the closure is `move`, so it owns this copy.
CaptureUniforms(t) == t

\* A closure that reads the Uniforms resource when it runs.
ClosureWriteCurrent(data, current) == current

\* copy_from_slice(bytes_of(&uniform_data)): the content the callback leaves in
\* the staging buffer, given the captured copy and Uniforms.time as it runs.
ClosureWrite(data, current) == data

\* A gate test that never reports the gate as set.
GateNeverBlocks(m) == FALSE

\* if MAPPED.swap(true, SeqCst) { return; }: the value swap returns.
GateBlocks(m) == m

\* A gate that is read but not set (load in place of swap).
GateLoadOnly(m) == m

\* MAPPED.swap(true, SeqCst): the value the gate holds after it.
GateAfterSwap(m) == TRUE

\* A callback that forgets to clear the gate.
GateLeftSet == TRUE

\* MAPPED.store(false, SeqCst) at the end of the Ok arm.
GateAfterCallback == FALSE

\* The Ok arm of the closure, run for the oldest request of reqs.
CallbackOk(reqs) ==
  /\ mapped_uniform_buffer' = ClosureWrite(Head(reqs).data, time)
  /\ MAPPED' = GateAfterCallback
  /\ map_requests' = Tail(reqs)
  /\ fired' = <<[data |-> Head(reqs).data, reqTime |-> Head(reqs).reqTime,
                 fireTime |-> time, written |-> mapped_uniform_buffer']>>
  /\ committed' = committed \cup {Head(reqs).data}
  /\ mapDone' = TRUE
  /\ panic' = panic
  /\ mapErrors' = mapErrors

\* An Err arm that drops the error and clears the gate, so that the next
\* call requests the map again.
CallbackErrRetry(reqs, gate) ==
  /\ panic' = panic
  /\ MAPPED' = FALSE
  /\ map_requests' = Tail(reqs)
  /\ mapErrors' = mapErrors + 1
  /\ UNCHANGED <<mapped_uniform_buffer, fired, committed, mapDone>>

\* The Err arm: panic!("Failed to map buffer {err}"); gate is the gate's value
\* as the callback finds it.
CallbackErr(reqs, gate) ==
  /\ panic' = "map"
  /\ MAPPED' = gate
  /\ map_requests' = Tail(reqs)
  /\ mapErrors' = mapErrors + 1
  /\ UNCHANGED <<mapped_uniform_buffer, fired, committed, mapDone>>

\* An early return that still polls the device, so that a pending callback may
\* be delivered by it.
SkipBranchPolling(o) ==
  /\ lastSync' = "skipped"
  /\ waited' = TRUE
  /\ CASE o = "MapOk" /\ map_requests # <<>> -> CallbackOk(map_requests)
       [] o = "MapErr" /\ map_requests # <<>> -> CallbackErr(map_requests, TRUE)
       [] o = "PollErr" ->
            /\ panic' = "poll"
            /\ MAPPED' = TRUE
            /\ UNCHANGED <<map_requests, mapped_uniform_buffer, fired, committed,
                           mapDone, mapErrors>>
       [] OTHER ->
            /\ MAPPED' = TRUE
            /\ UNCHANGED <<map_requests, mapped_uniform_buffer, panic, fired,
                           committed, mapDone, mapErrors>>

\* The gate was set: swap stored true again and the function returned.
SkipBranch(o) ==
  /\ lastSync' = "skipped"
  /\ waited' = FALSE
  /\ MAPPED' = TRUE
  /\ UNCHANGED <<map_requests, mapped_uniform_buffer, panic, fired, committed,
                 mapDone, mapErrors>>

\* The gate was clear: map_async, then poll(PollType::Wait).expect(..).
RequestBranch(o) ==
  LET reqs == Append(map_requests, [data |-> CaptureUniforms(time), reqTime |-> time]) IN
  /\ lastSync' = "requested"
  /\ waited' = TRUE
  /\ CASE o = "MapOk" -> CallbackOk(reqs)
       [] o = "MapErr" -> CallbackErr(reqs, GateAfterSwap(MAPPED))
       [] o = "Pending" ->
            /\ MAPPED' = GateAfterSwap(MAPPED)
            /\ map_requests' = reqs
            /\ UNCHANGED <<mapped_uniform_buffer, panic, fired, committed, mapDone,
                           mapErrors>>
       [] o = "PollErr" ->
            /\ panic' = "poll"
            /\ MAPPED' = GateAfterSwap(MAPPED)
            /\ map_requests' = reqs
            /\ UNCHANGED <<mapped_uniform_buffer, fired, committed, mapDone,
                           mapErrors>>

update_uniforms(o) ==
  /\ panic = "none"
  /\ phase = "uniforms"
  /\ IF GateBlocks(MAPPED) THEN SkipBranch(o) ELSE RequestBranch(o)
  /\ phase' = IF panic' = "none" THEN "prepare" ELSE phase
  /\ UNCHANGED <<frame, time, bind_group, state, cache, uniform_buffer, cmds,
                 observedOk, reads, copyFresh, polls, double_buffer>>

\* ------------------------------------------------------ the device
\* The device delivers the callback of a pending map between two systems.
map_callback(r) ==
  /\ panic = "none"
  /\ map_requests # <<>>
  /\ IF r = "Ok" THEN CallbackOk(map_requests) ELSE CallbackErr(map_requests, MAPPED)
  /\ UNCHANGED <<phase, frame, time, bind_group, state, cache, uniform_buffer,
                 cmds, observedOk, lastSync, waited, reads, copyFresh, polls,
                 double_buffer>>

\* ------------------------------------------------------ specifications
Next ==
  \/ prepare_bind_group
  \/ process_queue(CachedPipelineStates, FALSE)
  \/ MandelbrotNode_update
  \/ MandelbrotNode_run
  \/ \E o \in PollOutcomes : update_uniforms(o)
  \/ \E r \in MapResults : map_callback(r)

Spec == Init /\ [][Next]_vars

\* The frame under the assumptions of the liveness claim: the pipeline never
\* fails and stays compiled, the device and its maps never fail. The frame's
\* systems run one after the other, and the device delivers a pending map.
LiveCacheStates == {"Queued", "Creating", "ShaderNotLoaded", "Ok"}
LivePollOutcomes == {"MapOk", "Pending"}

LiveFrame ==
  \/ prepare_bind_group
  \/ process_queue(LiveCacheStates, TRUE)
  \/ MandelbrotNode_update
  \/ MandelbrotNode_run
  \/ \E o \in LivePollOutcomes : update_uniforms(o)

LiveNext == LiveFrame \/ map_callback("Ok")

LiveSpec ==
  /\ Init
  /\ [][LiveNext]_vars
  /\ WF_vars(LiveFrame)
  /\ WF_vars(map_callback("Ok"))

\* ------------------------------------------------------ claims
IsCopy(c) == c.op = "copy_buffer_to_buffer" /\ c.args = CopyCmd.args

\* C1: run records a dispatch only when update has observed the pipeline Ok
\* and the node is in Update; the commands of a frame whose pipeline is not
\* Ok, or whose run panicked, hold no dispatch.
C1_ReadinessGate ==
  /\ HasDispatch(cmds) => (observedOk /\ state = "Update")
  /\ (phase = "uniforms" /\ cache # "Ok") => ~HasDispatch(cmds)
  /\ panic = "unwrap" => ~HasDispatch(cmds)

\* A dispatch recorded in a frame that followed at least one Loading frame.
C1_Witness ==
  phase = "uniforms" /\ HasDispatch(cmds) /\ frame >= 2 /\ Len(reads) = 1

\* C2: at most one map request of the staging buffer is outstanding, and the
\* gate is set while one is.
C2_SingleInFlight ==
  /\ Len(map_requests) <= 1
  /\ map_requests # <<>> => MAPPED

\* update_uniforms was called while a request was outstanding and issued none.
C2_Witness ==
  Len(map_requests) = 1 /\ lastSync = "skipped" /\ phase = "prepare"

\* C3: the commands of a run start with the copy of one Uniforms from the
\* staging buffer to the uniform buffer, so every dispatch among them has that
\* copy before it, whether or not a map completed since the previous copy.
C3_CopyBeforeDispatch ==
  /\ cmds # <<>> => IsCopy(cmds[1])
  /\ \A i \in 1..Len(cmds) :
       cmds[i].op = "dispatch_workgroups" => \E j \in 1..(i - 1) : IsCopy(cmds[j])

\* A copy and dispatch recorded with no map completed since the previous copy.
C3_Witness ==
  phase = "uniforms" /\ HasDispatch(cmds) /\ ~copyFresh /\ Len(reads) >= 2

\* C4 as stated: the callback writes the Uniforms value current as it fires.
C4_LatestWins ==
  fired # <<>> => fired[1].written = fired[1].fireTime

\* C4 amended: the callback writes the Uniforms value that was current when
\* the map was requested.
C4_RequestTimeValue ==
  fired # <<>> => fired[1].written = fired[1].reqTime

\* A callback that fired after the counter had moved on.
C4_Witness ==
  /\ fired # <<>>
  /\ fired[1].fireTime > fired[1].reqTime
  /\ mapped_uniform_buffer = fired[1].reqTime

\* C5 as stated: every call of update_uniforms reaches the blocking wait.
C5_WaitEveryTick ==
  lastSync # "none" => waited

\* C5 amended: a call of update_uniforms reaches the blocking wait exactly
\* when it issued a map request; with the gate set it returns before the wait.
C5_WaitOnlyAfterRequest ==
  /\ lastSync = "requested" => waited
  /\ lastSync = "skipped" => ~waited

\* A call that found the gate set and returned without waiting.
C5_Witness ==
  lastSync = "skipped" /\ ~waited /\ phase = "prepare" /\ MAPPED

\* C6: Uniforms.time has been advanced by exactly 1 in every frame started,
\* whatever the gate, the outstanding map or the node's state.
C6_MonotonicCounter ==
  time = frame

\* The counter kept advancing in Update while a map stayed outstanding.
C6_Witness ==
  /\ state = "Update"
  /\ MAPPED
  /\ map_requests # <<>>
  /\ lastSync = "skipped"
  /\ time >= 3

\* C7: a step taken where update_uniforms is due and the gate is set is either
\* the device delivering the callback, or the call itself, which issues no
\* request, leaves the gate set, the staging buffer and the counter alone and
\* does not panic.
C7_GateSetNoOp ==
  [][(phase = "uniforms" /\ MAPPED) =>
       \/ Len(map_requests') < Len(map_requests)
       \/ /\ phase' = "prepare"
          /\ map_requests' = map_requests
          /\ MAPPED'
          /\ mapped_uniform_buffer' = mapped_uniform_buffer
          /\ time' = time
          /\ panic' = "none"]_vars

\* update_uniforms has returned from a call that found the gate set.
C7_Witness ==
  lastSync = "skipped" /\ phase = "prepare" /\ MAPPED /\ panic = "none"

\* C8: every value a dispatch read, and the uniform buffer at all times, is 0
\* or the Uniforms snapshot of a completed map; the uniform buffer changes
\* only in run, by the copy, to the staging buffer's content.
C8_UniformBufferValue ==
  /\ [](/\ uniform_buffer \in committed \cup {0}
        /\ \A i \in 1..Len(reads) : reads[i] \in committed \cup {0})
  /\ [][uniform_buffer' # uniform_buffer =>
          /\ phase = "run"
          /\ IsCopy(cmds'[1])
          /\ uniform_buffer' = mapped_uniform_buffer]_vars

\* A dispatch read a counter value that a completed map had delivered.
C8_Witness ==
  Len(reads) >= 2 /\ reads[Len(reads)] >= 1 /\ reads[Len(reads)] \in committed

\* C9: with frames running and the device delivering every pending map with
\* Ok, an outstanding request is eventually delivered with the gate cleared,
\* the gate never stays set, and once a map has completed with a frame still
\* to run, a delivered counter value reaches the uniform buffer.
C9_UploadLiveness ==
  /\ (map_requests # <<>>) ~> (map_requests = <<>> /\ ~MAPPED)
  /\ MAPPED ~> ~MAPPED
  /\ (committed # {} /\ frame < MaxFrames) ~> (uniform_buffer \in committed)

\* A map delivered in a later frame than its request, and its value copied.
C9_Witness ==
  /\ fired # <<>>
  /\ fired[1].fireTime > fired[1].reqTime
  /\ ~MAPPED
  /\ uniform_buffer = fired[1].written

\* C10: the node starts in Loading, and a node in Update stays in Update.
C10_NoReverseTransition ==
  /\ state = "Loading"
  /\ [][state = "Update" => state' = "Update"]_vars

\* update ran in Update with the pipeline cache reporting something else.
C10_Witness ==
  state = "Update" /\ cache # "Ok" /\ phase = "run"

\* C11 as stated: a frame in which the node is Loading records no command.
C11_LoadingRecordsNothing ==
  (phase = "uniforms" /\ state = "Loading") => cmds = <<>>

\* C11 amended: in a frame in which the node is Loading, run records the
\* staging-to-uniform copy and begins a compute pass, and nothing else: no
\* bind group, no pipeline, no dispatch; and no dispatch has read anything.
C11_LoadingRecordsNoDispatch ==
  (phase = "uniforms" /\ state = "Loading") =>
    /\ Len(cmds) = 2
    /\ IsCopy(cmds[1])
    /\ cmds[2].op = "begin_compute_pass"
    /\ reads = <<>>

\* run has returned in a second frame with the node still Loading.
C11_Witness ==
  phase = "uniforms" /\ state = "Loading" /\ frame >= 2 /\ cmds # <<>>

\* C12: update, finding Queued, Creating or ShaderNotLoaded while Loading,
\* leaves the node Loading and does not panic; and while the node is Loading
\* every frame's update has polled the cache, so that a later Ok is taken.
C12_TransientIsRetried ==
  /\ [](state = "Loading" /\ phase \in {"run", "uniforms"} => polls = frame)
  /\ [][(phase = "update" /\ state = "Loading"
           /\ cache \in {"Queued", "Creating", "ShaderNotLoaded"}) =>
          /\ state' = "Loading"
          /\ panic' # "pipeline"
          /\ (phase' # phase => phase' = "run")]_vars
  /\ [][(phase = "update" /\ state = "Loading" /\ cache = "Ok" /\ phase' # phase) =>
          state' = "Update"]_vars

\* The node reached Update on its third poll or later, with ShaderNotLoaded
\* not excluded before it.
C12_Witness ==
  state = "Update" /\ polls >= 3 /\ panic = "none"

\* C13: update, finding an Err other than ShaderNotLoaded while Loading,
\* panics in that frame; the process then stays ended with the node Loading
\* and no dispatch recorded or executed.
C13_CompileErrorIsFatal ==
  /\ [](panic = "pipeline" =>
          state = "Loading" /\ ~observedOk /\ ~HasDispatch(cmds) /\ reads = <<>>)
  /\ [][(phase = "update" /\ state = "Loading" /\ cache = "ErrOther") =>
          \/ panic' = "pipeline" /\ state' = "Loading" /\ frame' = frame
          \/ Len(map_requests') < Len(map_requests)]_vars

\* The panic of update after at least one frame spent Loading.
C13_Witness ==
  panic = "pipeline" /\ frame >= 2 /\ cache = "ErrOther"

\* C14: an Err delivered to the map callback panics; the step leaves the
\* staging buffer as it was, the gate set and no new request; afterwards the
\* process stays ended, so no second map is requested.
C14_MapErrorIsFatal ==
  /\ [](mapErrors > 0 => (panic = "map" /\ MAPPED /\ mapErrors = 1))
  /\ [][mapErrors' # mapErrors =>
          /\ panic' = "map"
          /\ MAPPED'
          /\ mapped_uniform_buffer' = mapped_uniform_buffer
          /\ committed' = committed
          /\ Len(map_requests') <= Len(map_requests)]_vars

\* An Err delivered for a map that had stayed pending over a frame.
C14_Witness ==
  mapErrors = 1 /\ panic = "map" /\ lastSync = "skipped"

\* Largest display factor for which the dispatch dimensions are examined.
MaxDisplayFactor == 8

\* C15: every dispatch recorded uses the counts WorkgroupCounts gives for SIZE
\* and WORKGROUP_SIZE; for every texture size 1280/f x 720/f these are the
\* floors of width/8 and height/8 with depth 1, and for 320 x 180 they are
\* (40, 22, 1).
C15_DispatchDimensions ==
  /\ \A i \in 1..Len(cmds) :
       cmds[i].op = "dispatch_workgroups" =>
         cmds[i].args = WorkgroupCounts(SIZE, WORKGROUP_SIZE)
  /\ \A f \in 1..MaxDisplayFactor :
       LET w == 1280 \div f
           h == 720 \div f
           n == WorkgroupCounts(<<w, h>>, WORKGROUP_SIZE)
       IN /\ n[1] * WORKGROUP_SIZE <= w /\ w < (n[1] + 1) * WORKGROUP_SIZE
          /\ n[2] * WORKGROUP_SIZE <= h /\ h < (n[2] + 1) * WORKGROUP_SIZE
          /\ n[3] = 1
  /\ WorkgroupCounts(<<320, 180>>, 8) = <<40, 22, 1>>

\* A dispatch has been recorded.
C15_Witness ==
  phase = "uniforms" /\ HasDispatch(cmds) /\ cmds[5].args = <<160, 90, 1>>

\* ------------------------------------------------------ synchronous device
\* The frame when every map completes, with Ok, inside the poll(Wait) of the
\* call that requested it: no map is ever pending between two systems.
SyncPollOutcomes == {"MapOk"}

SyncNext ==
  \/ prepare_bind_group
  \/ process_queue(CachedPipelineStates, FALSE)
  \/ MandelbrotNode_update
  \/ MandelbrotNode_run
  \/ \E o \in SyncPollOutcomes : update_uniforms(o)

SyncSpec == Init /\ [][SyncNext]_vars

\* ------------------------------------------------------ double-buffer variant
\* The ping-pong node: two bind groups built up front, one per parity; the
\* node enters Ready with parity 0, dispatches with the bind group of the
\* current parity and flips the parity after the dispatch.
DBBindGroups == <<"write_B_after_A", "write_A_after_B">>

BindGroupForParity(p) == DBBindGroups[p + 1]

\* A parity that is never flipped.
FlipParityStuck(p) == p

FlipParity(p) == 1 - p

InitialParity == 0

db_prepare_bind_groups ==
  /\ panic = "none"
  /\ phase = "prepare"
  /\ frame < MaxFrames
  /\ frame' = frame + 1
  /\ phase' = "queue"
  /\ UNCHANGED <<time, bind_group, state, cache, MAPPED, map_requests,
                 mapped_uniform_buffer, uniform_buffer, cmds, panic, history,
                 double_buffer>>

db_update ==
  /\ panic = "none"
  /\ phase = "update"
  /\ IF UpdatePanics(state, cache)
       THEN /\ panic' = "pipeline"
            /\ UNCHANGED <<state, index, phase>>
       ELSE /\ state' = NextState(state, cache)
            /\ index' = IF state = "Loading" /\ state' = "Update"
                          THEN InitialParity ELSE index
            /\ phase' = "run"
            /\ panic' = panic
  /\ UNCHANGED <<frame, time, bind_group, cache, MAPPED, map_requests,
                 mapped_uniform_buffer, uniform_buffer, cmds, history, selected>>

db_run ==
  /\ panic = "none"
  /\ phase = "run"
  /\ IF state = "Update"
       THEN /\ selected' = Append(selected, BindGroupForParity(index))
            /\ index' = FlipParity(index)
       ELSE UNCHANGED <<selected, index>>
  /\ phase' = "prepare"
  /\ UNCHANGED <<frame, time, bind_group, state, cache, MAPPED, map_requests,
                 mapped_uniform_buffer, uniform_buffer, cmds, panic, history>>

ParityNext ==
  \/ db_prepare_bind_groups
  \/ process_queue(CachedPipelineStates, FALSE)
  \/ db_update
  \/ db_run

ParitySpec == Init /\ [][ParityNext]_vars

\* ------------------------------------------------------ claims, continued
\* C16: in the double-buffer variant the bind group of the Nth dispatch after
\* Ready (0-indexed) is the one of parity N mod 2, and the node's parity is 0
\* on entering Ready and flipped once by every dispatch.
C16_ParityCorrectness ==
  /\ \A n \in 1..Len(selected) : selected[n] = BindGroupForParity((n - 1) % 2)
  /\ (state = "Update" /\ phase \in {"run", "prepare", "queue", "update"}) =>
       index = Len(selected) % 2

\* Three dispatches of the double-buffer node: parities 0, 1, 0.
C16_Witness ==
  Len(selected) = 3 /\ selected[3] = "write_B_after_A" /\ index = 1

DispatchCount(cs) == Cardinality({i \in 1..Len(cs) : cs[i].op = "dispatch_workgroups"})

\* C17: once the node is in Update, every run, the one of the frame that
\* entered Update included, records exactly one dispatch, with the bind group
\* prepare_bind_group built in that frame.
C17_OneDispatchPerTick ==
  (state = "Update" /\ (phase = "uniforms" \/ panic = "unwrap")) =>
    /\ DispatchCount(cmds) = 1
    /\ \E i \in 1..Len(cmds) :
         cmds[i].op = "set_bind_group" /\ cmds[i].args = <<0, frame>>

\* C18: whenever run records the staging-to-uniform copy, no map request is
\* outstanding and the gate is clear.
C18_NoCopyWhileMapPending ==
  [][(phase = "run" /\ phase' = "uniforms") =>
       (map_requests = <<>> /\ ~MAPPED)]_vars

\* C19: the uniform buffer, and so every value a dispatch read, is at most
\* Uniforms.time, and the values read by successive dispatches never decrease.
C19_NeverAheadNeverBack ==
  /\ uniform_buffer <= time
  /\ \A i \in 1..Len(reads) : reads[i] <= time
  /\ \A i \in 1..Len(reads) : \A j \in i..Len(reads) : reads[i] <= reads[j]

\* Dispatches that read a repeated value and then a newer one.
C19_Witness ==
  /\ Len(reads) >= 3
  /\ reads[1] = reads[2]
  /\ reads[Len(reads)] > reads[1]
  /\ reads[Len(reads)] < time

\* C20: with every map completing inside the wait of the frame that requested
\* it, the copy of each frame leaves Uniforms.time - 1 in the uniform buffer,
\* and that is what the frame's dispatch reads.
C20_LagExactlyOne ==
  /\ phase = "uniforms" => uniform_buffer + 1 = time
  /\ (phase = "uniforms" /\ HasDispatch(cmds)) => reads[Len(reads)] + 1 = time

\* A dispatch in a later frame read the value committed in the frame before.
C20_Witness ==
  /\ phase = "uniforms"
  /\ HasDispatch(cmds)
  /\ Len(reads) >= 2
  /\ time >= 3
  /\ reads[Len(reads)] = time - 1

====
